---- MODULE Spec2Model ----
(***************************************************************************)
(* A model of src/webscrape.py: scrape_student_data(html_file_path,        *)
(* output_csv_path).  One run reads the input file (windows-1252, falling   *)
(* back to latin-1), selects the student rows of the parsed document,       *)
(* extracts four fields from every row, and writes the retained records to  *)
(* a CSV file.  The model runs the function twice in succession on the same *)
(* paths.                                                                   *)
(*                                                                          *)
(* Representation.  Text is a sequence of numbers: bytes (0..255) in the    *)
(* input file, code points after decoding, bytes again in the output file.  *)
(* The markup of the input file is ASCII, which both decoders map to        *)
(* itself, so the input file is kept as the sequence of its top-level       *)
(* elements with the bytes of their text left undecoded; decoding maps the  *)
(* bytes of every text and BeautifulSoup keeps the structure.  An element   *)
(* is [tag, class, id, cells]: class is the list of the class attribute's   *)
(* whitespace-separated tokens (empty when the attribute is absent), id is  *)
(* the id attribute's characters (empty when absent), cells are its child   *)
(* td elements.  A td is [fonts, inner]: the texts of the font elements it  *)
(* holds directly, and the td elements of a table nested in it, which       *)
(* follow its own font elements in document order.                          *)
(***************************************************************************)
EXTENDS Integers, Sequences, FiniteSets, TLC

VARIABLES
    inputFile,      \* the file at html_file_path: [exists, readable, data]
    outputFile,     \* the file at output_csv_path: [exists, writable, data]
    pc,             \* position in scrape_student_data
    run,            \* "first" or "second" call
    error,          \* the exception that left the function, "" if none
    html_content,   \* the decoded document
    student_rows,   \* the result of soup.find_all(...)
    idx,            \* position of the for loop in student_rows
    students,       \* the output table
    console,        \* what print() has written during this call
    opens,          \* the open() calls made during this call, in order
    outAtStart,     \* outputFile when this call began
    firstOut        \* outputFile when the first call ended

vars == <<inputFile, outputFile, pc, run, error, html_content, student_rows,
          idx, students, console, opens, outAtStart, firstOut>>

----------------------------------------------------------------------------
(* Bounds of the model. *)

\* Longest text of a font element in the varied rows, in bytes.
MaxText == 2

\* Most top-level elements of a document.
MaxRows == 2

----------------------------------------------------------------------------
(* Sequences. *)

RECURSIVE SeqsUpTo(_, _)
SeqsUpTo(S, n) ==
    IF n = 0 THEN {<<>>}
    ELSE LET shorter == SeqsUpTo(S, n - 1)
         IN  shorter \cup {Append(s, x) : s \in {t \in shorter : Len(t) = n - 1}, x \in S}

RECURSIVE Concat(_)
Concat(ss) == IF ss = <<>> THEN <<>> ELSE Head(ss) \o Concat(Tail(ss))

InsertAt(s, k, x) == SubSeq(s, 1, k) \o <<x>> \o SubSeq(s, k + 1, Len(s))

Ch(s) == {s[k] : k \in 1..Len(s)}

----------------------------------------------------------------------------
(* The codecs: open(..., encoding='windows-1252'), open(...,               *)
(* encoding='latin-1') and open(..., 'w', encoding='utf-8').               *)

\* Code points of the bytes 0x80..0x9F in windows-1252; 0 where Python's
\* codec has no mapping (0x81, 0x8D, 0x8F, 0x90, 0x9D).
Cp1252High ==
    << 8364, 0, 8218, 402, 8222, 8230, 8224, 8225, 710, 8240, 352, 8249, 338, 0, 381, 0,
       0, 8216, 8217, 8220, 8221, 8226, 8211, 8212, 732, 8482, 353, 8250, 339, 0, 382, 376 >>

Cp1252Char(b) == IF b >= 128 /\ b <= 159 THEN Cp1252High[b - 127] ELSE b

\* Mutant: the WHATWG table, which maps the five bytes to C1 controls.
Cp1252Defined_AllBytes(b) == TRUE

Cp1252Defined(b) == Cp1252Char(b) # 0 \/ b = 0

Latin1Char(b) == b

\* The code point a codec gives a byte.
DecodeByte(encoding, b) ==
    IF encoding = "windows-1252" THEN Cp1252Char(b) ELSE Latin1Char(b)

DecodeText(encoding, t) == [k \in 1..Len(t) |-> DecodeByte(encoding, t[k])]

RECURSIVE DecodeCells(_, _)
DecodeCells(encoding, cs) ==
    [k \in 1..Len(cs) |->
        [fonts |-> [j \in 1..Len(cs[k].fonts) |-> DecodeText(encoding, cs[k].fonts[j])],
         inner |-> DecodeCells(encoding, cs[k].inner)]]

\* file.read(): the document with the bytes of its texts decoded.
DecodeDocument(encoding, doc) ==
    [k \in 1..Len(doc) |-> [doc[k] EXCEPT !.cells = DecodeCells(encoding, doc[k].cells)]]

RECURSIVE CellBytes(_)
CellBytes(cs) ==
    IF cs = <<>> THEN {}
    ELSE UNION {Ch(Head(cs).fonts[j]) : j \in 1..Len(Head(cs).fonts)}
         \cup CellBytes(Head(cs).inner) \cup CellBytes(Tail(cs))

\* The bytes of the texts of a document.
DocumentBytes(doc) == UNION {CellBytes(doc[k].cells) : k \in 1..Len(doc)}

\* file.read() under windows-1252 raises UnicodeDecodeError on a byte the
\* codec does not map.
DecodesAsCp1252(doc) == \A b \in DocumentBytes(doc) : Cp1252Defined(b)

DecodeCp1252(doc) == DecodeDocument("windows-1252", doc)

DecodeLatin1(doc) == DecodeDocument("latin-1", doc)

Utf8Char(c) ==
    IF c < 128 THEN <<c>>
    ELSE IF c < 2048 THEN <<192 + (c \div 64), 128 + (c % 64)>>
    ELSE <<224 + (c \div 4096), 128 + ((c \div 64) % 64), 128 + (c % 64)>>

EncodeUtf8(t) == Concat([k \in 1..Len(t) |-> Utf8Char(t[k])])

----------------------------------------------------------------------------
(* BeautifulSoup and str operations used by the function. *)

Digits == {"0", "1", "2", "3", "4", "5", "6", "7", "8", "9"}

\* Mutant: "id starting with msg", without the digits and the end anchor.
IdMatches_StartsWith(id) == Len(id) >= 3 /\ SubSeq(id, 1, 3) = <<"m", "s", "g">>

\* re.compile(r'^msg\d+$') applied with search(): ^ anchors at the start, and
\* $ matches at the end of the string or just before a newline that ends it.
IdMatches(id) ==
    LET n == Len(id)
        body == IF n >= 1 /\ id[n] = "\n" THEN SubSeq(id, 1, n - 1) ELSE id
    IN  /\ Len(body) >= 4
        /\ SubSeq(body, 1, 3) = <<"m", "s", "g">>
        /\ \A k \in 4..Len(body) : body[k] \in Digits

\* class_='nav': class is a multi-valued attribute, and the filter matches when
\* any one of its tokens is the string, or the whole value is.
ClassMatches(class) ==
    \/ \E k \in 1..Len(class) : class[k] = "nav"
    \/ class = <<"nav">>

RowMatches(el) == el.tag = "tr" /\ ClassMatches(el.class) /\ IdMatches(el.id)

\* soup.find_all('tr', class_='nav', id=re.compile(r'^msg\d+$'))
FindRows(doc) == SelectSeq(doc, RowMatches)

\* row.find_all('td'): every td below the row, in document order.
RECURSIVE FindAllTd(_)
FindAllTd(cs) ==
    IF cs = <<>> THEN <<>>
    ELSE <<Head(cs)>> \o FindAllTd(Head(cs).inner) \o FindAllTd(Tail(cs))

\* td.find('font'): the first font element below the td, <<>> for None.
RECURSIVE FindFont(_)
RECURSIVE FirstFontOf(_)
FindFont(td) == IF td.fonts # <<>> THEN <<td.fonts[1]>> ELSE FirstFontOf(td.inner)
FirstFontOf(cs) ==
    IF cs = <<>> THEN <<>>
    ELSE IF FindFont(Head(cs)) # <<>> THEN FindFont(Head(cs))
    ELSE FirstFontOf(Tail(cs))

\* str.isspace() on the code points of the model's range.
IsSpace(c) == c \in {9, 10, 11, 12, 13, 28, 29, 30, 31, 32, 133, 160}

\* str.strip()
Strip(t) ==
    LET keep == {k \in 1..Len(t) : ~IsSpace(t[k])}
    IN  IF keep = {} THEN <<>>
        ELSE SubSeq(t, CHOOSE k \in keep : \A j \in keep : k <= j,
                       CHOOSE k \in keep : \A j \in keep : k >= j)

\* x_cell.text.strip() if x_cell else ''
FieldText(font) == IF font # <<>> THEN Strip(font[1]) ELSE <<>>

----------------------------------------------------------------------------
(* csv.DictWriter with the default dialect. *)

\* ['Student ID', 'Student Name', 'Course', 'Year']
fieldnames == <<"Student ID", "Student Name", "Course", "Year">>

\* The characters of the field names.
FieldNameChars(name) ==
    CASE name = "Student ID" -> <<83, 116, 117, 100, 101, 110, 116, 32, 73, 68>>
      [] name = "Student Name" -> <<83, 116, 117, 100, 101, 110, 116, 32, 78, 97, 109, 101>>
      [] name = "Course" -> <<67, 111, 117, 114, 115, 101>>
      [] name = "Year" -> <<89, 101, 97, 114>>

\* Mutant: fields joined without quoting.
CsvField_Unquoted(f) == f

\* QUOTE_MINIMAL: a field holding the delimiter, the quote character or a
\* character of the line terminator is quoted, its quote characters doubled.
CsvField(f) ==
    IF Ch(f) \cap {44, 34, 13, 10} = {} THEN f
    ELSE <<34>> \o Concat([k \in 1..Len(f) |-> IF f[k] = 34 THEN <<34, 34>> ELSE <<f[k]>>])
         \o <<34>>

\* writer.writerow on a list of fields: joined by commas, ended by \r\n.
CsvLine(fields) ==
    Concat([k \in 1..Len(fields) |->
               IF k = 1 THEN CsvField(fields[k]) ELSE <<44>> \o CsvField(fields[k])])
    \o <<13, 10>>

\* writer.writeheader()
CsvHeader == CsvLine([k \in 1..Len(fieldnames) |-> FieldNameChars(fieldnames[k])])

\* writer.writerow(student)
CsvRow(student) == CsvLine([k \in 1..Len(fieldnames) |-> student[fieldnames[k]]])

\* The bytes the with block leaves in the output file.
CsvFile(table) ==
    EncodeUtf8(CsvHeader \o Concat([k \in 1..Len(table) |-> CsvRow(table[k])]))

----------------------------------------------------------------------------
(* The input documents of the model. *)

Element(tag, class, id, cells) == [tag |-> tag, class |-> class, id |-> id, cells |-> cells]

\* <td><font>t</font></td>, <td></td>, and a td holding a nested table.
Plain(t) == [fonts |-> <<t>>, inner |-> <<>>]
Bare == [fonts |-> <<>>, inner |-> <<>>]
Nesting(fonts, t) == [fonts |-> fonts, inner |-> <<Plain(t)>>]

msg1 == <<"m", "s", "g", "1">>

StudentRow(cells) == Element("tr", <<"nav">>, msg1, cells)

\* A row as the grade sheet has it: a counter, then ID, name, course, year.
FullRow(id, name, course, year) ==
    StudentRow(<<Plain(<<49>>), Plain(id), Plain(name), Plain(course), Plain(year)>>)

\* The elements every document of the model is built around: two full rows,
\* a row whose ID is blank, a row of three cells, and the table's title row.
CoreElements ==
    { FullRow(<<65>>, <<78>>, <<67>>, <<89>>),
      FullRow(<<66>>, <<79>>, <<68>>, <<90>>),
      FullRow(<<32>>, <<78>>, <<67>>, <<89>>),
      StudentRow(<<Plain(<<49>>), Plain(<<83>>), Plain(<<78>>)>>),
      Element("tr", <<>>, <<>>, <<Plain(<<84>>)>>) }

\* Elements whose tag, class and id vary.
ClassSamples == {<<>>, <<"nav">>, <<"nav", "x">>, <<"x", "nav">>, <<"navbar">>}

IdSamples ==
    {pre \o <<"m", "s", "g">> \o digits \o post :
        pre \in {<<>>, <<"x">>},
        digits \in {<<>>, <<"1">>, <<"1", "2">>},
        post \in {<<>>, <<"x">>, <<"\n">>}}
    \cup {<<>>, <<"m", "s", "1">>, <<"m", "s", "g", "1", "\n", "\n">>}

AttributeElements ==
    {Element("tr", class, id, FullRow(<<88>>, <<78>>, <<67>>, <<89>>).cells) :
        class \in ClassSamples, id \in IdSamples}
    \cup {Element("div", class, msg1, FullRow(<<88>>, <<78>>, <<67>>, <<89>>).cells) :
            class \in {<<>>, <<"nav">>}}

\* Rows whose cells vary in number, in their font elements and in nesting.
CellRows ==
    {StudentRow(SubSeq(FullRow(<<83>>, <<78>>, <<67>>, <<89>>).cells, 1, n)) : n \in 0..5}
    \cup {StudentRow(FullRow(<<83>>, <<78>>, <<67>>, <<89>>).cells \o <<Plain(<<90>>)>>)}
    \cup {StudentRow(<<Plain(<<49>>), idCell, other, other, other>>) :
            idCell \in {Bare, Plain(<<>>), Plain(<<83>>), [fonts |-> <<<<70>>, <<71>>>>, inner |-> <<>>]},
            other \in {Bare, Plain(<<78>>)}}
    \cup {StudentRow(<<Nesting(<<<<49>>>>, <<73>>), Plain(<<83>>), Plain(<<78>>), Plain(<<67>>), Plain(<<89>>)>>),
          StudentRow(<<Plain(<<49>>), Nesting(<<<<83>>>>, <<73>>), Plain(<<78>>), Plain(<<67>>), Plain(<<89>>)>>),
          StudentRow(<<Plain(<<49>>), Nesting(<<>>, <<73>>), Plain(<<78>>), Plain(<<67>>)>>)}

\* Rows whose texts vary: the ID over a letter, a space and a byte that
\* windows-1252 does not map; the name over the characters CSV quotes, a
\* letter and a byte that windows-1252 maps away from its own value.
TextRows ==
    {FullRow(t, <<78>>, <<67>>, <<89>>) : t \in SeqsUpTo({65, 32, 129}, MaxText)}
    \cup {FullRow(<<65>>, t, <<67>>, <<>>) : t \in SeqsUpTo({65, 44, 34, 128}, MaxText)}

VariedElements == AttributeElements \cup CellRows \cup TextRows

\* A document holds at most MaxRows elements, at most one of them varied.
Documents ==
    SeqsUpTo(CoreElements, MaxRows)
    \cup UNION {{InsertAt(d, k, e) : k \in 0..Len(d), e \in VariedElements} :
                  d \in SeqsUpTo(CoreElements, MaxRows - 1)}

\* The file at html_file_path: missing, unreadable, or an HTML document.
InputFiles ==
    {[exists |-> FALSE, readable |-> FALSE, data |-> <<>>],
     [exists |-> TRUE, readable |-> FALSE, data |-> <<>>]}
    \cup {[exists |-> TRUE, readable |-> TRUE, data |-> d] : d \in Documents}

\* The file at output_csv_path: absent, left by an earlier run, or left by an
\* earlier run and write-protected.
OutputFiles ==
    {[exists |-> FALSE, writable |-> TRUE, data |-> <<>>],
     [exists |-> TRUE, writable |-> TRUE, data |-> <<111, 108, 100, 10>>],
     [exists |-> TRUE, writable |-> FALSE, data |-> <<111, 108, 100, 10>>]}

----------------------------------------------------------------------------
(* scrape_student_data *)

\* A line written by print(): its fixed text, and what is interpolated in it.
Message(kind, n, detail, fields) ==
    [kind |-> kind, n |-> n, detail |-> detail, fields |-> fields]

Opened(path, mode, encoding) == [path |-> path, mode |-> mode, encoding |-> encoding]

Init ==
    /\ inputFile \in InputFiles
    /\ outputFile \in OutputFiles
    /\ pc = "start"
    /\ run = "first"
    /\ error = ""
    /\ html_content = <<>>
    /\ student_rows = <<>>
    /\ idx = 1
    /\ students = <<>>
    /\ console = <<>>
    /\ opens = <<>>
    /\ outAtStart = outputFile
    /\ firstOut = outputFile

\* Mutant: the output file is opened for writing before the input is read.
ReadPrimary_OpensOutputFirst ==
    /\ pc = "start"
    /\ opens' = opens \o <<Opened("output_csv_path", "w", "utf-8"),
                           Opened("html_file_path", "r", "windows-1252")>>
    /\ outputFile' = IF outputFile.exists /\ ~outputFile.writable THEN outputFile
                     ELSE [exists |-> TRUE, writable |-> TRUE, data |-> <<>>]
    /\ IF ~inputFile.exists
         THEN pc' = "raised" /\ error' = "FileNotFoundError" /\ UNCHANGED html_content
       ELSE IF ~inputFile.readable
         THEN pc' = "raised" /\ error' = "PermissionError" /\ UNCHANGED html_content
       ELSE IF ~DecodesAsCp1252(inputFile.data)
         THEN pc' = "except UnicodeDecodeError" /\ UNCHANGED <<error, html_content>>
       ELSE pc' = "parse" /\ html_content' = DecodeCp1252(inputFile.data) /\ UNCHANGED error
    /\ UNCHANGED <<inputFile, run, student_rows, idx, students, console,
                   outAtStart, firstOut>>

\* with open(html_file_path, 'r', encoding='windows-1252') as file:
\*     html_content = file.read()
ReadPrimary ==
    /\ pc = "start"
    /\ opens' = Append(opens, Opened("html_file_path", "r", "windows-1252"))
    /\ IF ~inputFile.exists
         THEN pc' = "raised" /\ error' = "FileNotFoundError" /\ UNCHANGED html_content
       ELSE IF ~inputFile.readable
         THEN pc' = "raised" /\ error' = "PermissionError" /\ UNCHANGED html_content
       ELSE IF ~DecodesAsCp1252(inputFile.data)
         THEN pc' = "except UnicodeDecodeError" /\ UNCHANGED <<error, html_content>>
       ELSE pc' = "parse" /\ html_content' = DecodeCp1252(inputFile.data) /\ UNCHANGED error
    /\ UNCHANGED <<inputFile, outputFile, run, student_rows, idx, students, console,
                   outAtStart, firstOut>>

\* except UnicodeDecodeError:
\*     with open(html_file_path, 'r', encoding='latin-1') as file:
\*         html_content = file.read()
ReadFallback ==
    /\ pc = "except UnicodeDecodeError"
    /\ opens' = Append(opens, Opened("html_file_path", "r", "latin-1"))
    /\ html_content' = DecodeLatin1(inputFile.data)
    /\ pc' = "parse"
    /\ UNCHANGED <<inputFile, outputFile, run, error, student_rows, idx, students, console,
                   outAtStart, firstOut>>

\* soup = BeautifulSoup(html_content, 'html.parser')
\* student_rows = soup.find_all(...); students = []
SelectRows ==
    /\ pc = "parse"
    /\ student_rows' = FindRows(html_content)
    /\ students' = <<>>
    /\ idx' = 1
    /\ pc' = "for"
    /\ UNCHANGED <<inputFile, outputFile, run, error, html_content, console, opens,
                   outAtStart, firstOut>>

\* The dictionary appended for a row.
Student(student_id, student_name, course, year) ==
    "Student ID" :> student_id @@ "Student Name" :> student_name
    @@ "Course" :> course @@ "Year" :> year

\* cells = row.find_all('td')
RowCells(row) == FindAllTd(row.cells)

\* cells[1], cells[2], cells[3] and cells[4] are read in turn; the first one
\* that is missing raises IndexError.
RaisesIndexError(cells) == \E k \in 2..5 : k > Len(cells)

\* Mutant: the indices taken as 1-based, starting at the first cell.
ExtractFields_FromFirstCell(cells) ==
    Student(FieldText(FindFont(cells[1])), FieldText(FindFont(cells[2])),
            FieldText(FindFont(cells[3])), FieldText(FindFont(cells[4])))

\* The four fields, each the stripped text of the first font element of its
\* cell (Python's cells[1] is cells[2] here).
ExtractFields(cells) ==
    Student(FieldText(FindFont(cells[2])), FieldText(FindFont(cells[3])),
            FieldText(FindFont(cells[4])), FieldText(FindFont(cells[5])))

\* Mutant: the record is put at the front of the list.
Retain_Prepends(table, student) ==
    IF student["Student ID"] # <<>> THEN <<student>> \o table ELSE table

\* Mutant: the test of student_id is left out.
Retain_EveryRow(table, student) == Append(table, student)

\* if student_id: students.append({...})
Retain(table, student) ==
    IF student["Student ID"] # <<>> THEN Append(table, student) ELSE table

\* Mutant: no try/except around the body, so IndexError leaves the function.
ProcessRow_NoExcept ==
    /\ pc = "for"
    /\ idx <= Len(student_rows)
    /\ LET cells == RowCells(student_rows[idx])
       IN  IF RaisesIndexError(cells)
             THEN /\ pc' = "raised"
                  /\ error' = "IndexError"
                  /\ UNCHANGED <<students, idx>>
             ELSE /\ students' = Retain(students, ExtractFields(cells))
                  /\ idx' = idx + 1
                  /\ UNCHANGED <<pc, error>>
    /\ UNCHANGED <<inputFile, outputFile, run, html_content, student_rows, opens, console,
                   outAtStart, firstOut>>

\* One pass of the body of "for row in student_rows"; the except clause
\* prints the exception and continues.
ProcessRow ==
    /\ pc = "for"
    /\ idx <= Len(student_rows)
    /\ LET cells == RowCells(student_rows[idx])
       IN  IF RaisesIndexError(cells)
             THEN /\ console' = Append(console,
                                       Message("Error processing row", 0,
                                               "list index out of range", <<>>))
                  /\ UNCHANGED students
             ELSE /\ students' = Retain(students, ExtractFields(cells))
                  /\ UNCHANGED console
    /\ idx' = idx + 1
    /\ UNCHANGED <<inputFile, outputFile, pc, run, error, html_content, student_rows, opens,
                   outAtStart, firstOut>>

\* The lines printed after the file is written: the count, the path, and a
\* preview of students[:5].
Report(table) ==
    <<Message("Successfully scraped students", Len(table), "", <<>>),
      Message("Data saved to", 0, "output_csv_path", <<>>),
      Message("Preview of extracted data", 0, "", <<>>),
      Message("-", 80, "", <<>>)>>
    \o [k \in 1..(IF Len(table) < 5 THEN Len(table) ELSE 5) |->
           Message("preview", k, "",
                   <<table[k]["Student ID"], table[k]["Student Name"],
                     table[k]["Course"], table[k]["Year"]>>)]
    \o (IF Len(table) > 5 THEN <<Message("more students", Len(table) - 5, "", <<>>)>>
        ELSE <<>>)

\* Mutant: the output is opened in append mode.
WriteCsv_Appends ==
    /\ pc = "for"
    /\ idx > Len(student_rows)
    /\ students # <<>>
    /\ opens' = Append(opens, Opened("output_csv_path", "a", "utf-8"))
    /\ IF outputFile.exists /\ ~outputFile.writable
         THEN /\ pc' = "raised"
              /\ error' = "PermissionError"
              /\ UNCHANGED <<outputFile, console>>
         ELSE /\ outputFile' = [exists |-> TRUE, writable |-> TRUE,
                                data |-> outputFile.data \o CsvFile(students)]
              /\ console' = console \o Report(students)
              /\ pc' = "return"
              /\ UNCHANGED error
    /\ UNCHANGED <<inputFile, run, html_content, student_rows, idx, students,
                   outAtStart, firstOut>>

\* if students: open the output for writing, write the header and the rows,
\* and report.  open() raises when the file cannot be written.
WriteCsv ==
    /\ pc = "for"
    /\ idx > Len(student_rows)
    /\ students # <<>>
    /\ opens' = Append(opens, Opened("output_csv_path", "w", "utf-8"))
    /\ IF outputFile.exists /\ ~outputFile.writable
         THEN /\ pc' = "raised"
              /\ error' = "PermissionError"
              /\ UNCHANGED <<outputFile, console>>
         ELSE /\ outputFile' = [exists |-> TRUE, writable |-> TRUE, data |-> CsvFile(students)]
              /\ console' = console \o Report(students)
              /\ pc' = "return"
              /\ UNCHANGED error
    /\ UNCHANGED <<inputFile, run, html_content, student_rows, idx, students,
                   outAtStart, firstOut>>

\* Mutant: the output is opened before the test of students, so an empty
\* table leaves an empty file.
ReportNoData_TruncatesOutput ==
    /\ pc = "for"
    /\ idx > Len(student_rows)
    /\ students = <<>>
    /\ opens' = Append(opens, Opened("output_csv_path", "w", "utf-8"))
    /\ outputFile' = IF outputFile.exists /\ ~outputFile.writable THEN outputFile
                     ELSE [exists |-> TRUE, writable |-> TRUE, data |-> <<>>]
    /\ console' = Append(console, Message("No student data found in the HTML file", 0, "", <<>>))
    /\ pc' = "return"
    /\ UNCHANGED <<inputFile, run, error, html_content, student_rows, idx,
                   students, outAtStart, firstOut>>

\* else: print("No student data found in the HTML file")
ReportNoData ==
    /\ pc = "for"
    /\ idx > Len(student_rows)
    /\ students = <<>>
    /\ console' = Append(console, Message("No student data found in the HTML file", 0, "", <<>>))
    /\ pc' = "return"
    /\ UNCHANGED <<inputFile, outputFile, run, error, html_content, student_rows, idx,
                   students, opens, outAtStart, firstOut>>

\* The function is called again with the same two paths.
CallAgain ==
    /\ pc \in {"return", "raised"}
    /\ run = "first"
    /\ run' = "second"
    /\ pc' = "start"
    /\ error' = ""
    /\ html_content' = <<>>
    /\ student_rows' = <<>>
    /\ idx' = 1
    /\ students' = <<>>
    /\ console' = <<>>
    /\ opens' = <<>>
    /\ outAtStart' = outputFile
    /\ firstOut' = outputFile
    /\ UNCHANGED <<inputFile, outputFile>>

Next ==
    \/ ReadPrimary
    \/ ReadFallback
    \/ SelectRows
    \/ ProcessRow
    \/ WriteCsv
    \/ ReportNoData
    \/ CallAgain

Spec == Init /\ [][Next]_vars

----------------------------------------------------------------------------
(* Vocabulary of the properties. *)

\* The for loop has passed every selected row.
AllRowsDone ==
    \/ pc \in {"for", "return"} /\ idx > Len(student_rows)
    \/ pc = "raised" /\ opens # <<>> /\ opens[Len(opens)].mode # "r"

\* The trimmed text of the first font element of the k-th td of a sequence of
\* td elements, counted from 0; empty when there is no such td or no font.
TdField(tds, k) == IF k + 1 <= Len(tds) THEN FieldText(FindFont(tds[k + 1])) ELSE <<>>

\* The Student ID field of a selected row.
IdField(row) == TdField(RowCells(row), 1)

\* The record of a row, its fields taken from the given td elements.
RecordFrom(tds) == Student(TdField(tds, 1), TdField(tds, 2), TdField(tds, 3), TdField(tds, 4))

HasId(row) == IdField(row) # <<>>

HasFiveCells(row) == Len(RowCells(row)) >= 5

FullWithId(row) == HasFiveCells(row) /\ HasId(row)

IdsOf(table) == [k \in 1..Len(table) |-> table[k]["Student ID"]]

Last(s) == s[Len(s)]

CountKind(lines, kind) == Cardinality({k \in 1..Len(lines) : lines[k].kind = kind})

\* The loop is about to process the row student_rows[idx].
AtRow == pc = "for" /\ idx <= Len(student_rows)

\* The loop has just processed the row student_rows[idx - 1].
PastRow == pc = "for" /\ idx > 1 /\ idx - 1 <= Len(student_rows)

----------------------------------------------------------------------------
(* C1 *)

\* C1 as stated: every selected row whose Student ID field is non-empty after
\* trimming has exactly one record in the output table, in document order.
\* The IDs of the table are then the non-empty ID fields of the rows, in order.
C1_EveryRowWithIdRecorded ==
    AllRowsDone =>
        IdsOf(students)
            = [k \in 1..Len(SelectSeq(student_rows, HasId)) |->
                  IdField(SelectSeq(student_rows, HasId)[k])]

\* C1 amended: the output table holds exactly one record for every selected
\* row that has at least five td elements and a non-empty trimmed Student ID
\* field, and no other record; the records are in the order of their rows.
C1_RowsWithFiveCellsAndIdRecorded ==
    AllRowsDone =>
        students
            = [k \in 1..Len(SelectSeq(student_rows, FullWithId)) |->
                  RecordFrom(RowCells(SelectSeq(student_rows, FullWithId)[k]))]

\* Two rows with different IDs have been recorded.
C1_Witness ==
    /\ pc = "return"
    /\ Len(students) = 2
    /\ students[1]["Student ID"] # students[2]["Student ID"]

----------------------------------------------------------------------------
(* C2 *)

BlankId(row) == ~HasId(row)

\* C2: processing a selected row whose Student ID field is empty after
\* trimming (no font element in cell 1 included) adds no record, whatever the
\* other fields hold; and every record of the output table has a non-empty
\* Student ID.
C2_BlankIdNeverRecorded ==
    /\ [][(AtRow /\ BlankId(student_rows[idx])) => students' = students]_vars
    /\ [](\A k \in 1..Len(students) : students[k]["Student ID"] # <<>>)

\* A row of five cells has been processed whose ID font holds only
\* whitespace and whose name is not empty.
C2_Witness ==
    /\ PastRow
    /\ BlankId(student_rows[idx - 1])
    /\ HasFiveCells(student_rows[idx - 1])
    /\ FindFont(RowCells(student_rows[idx - 1])[2]) \notin {<<>>, <<<<>>>>}
    /\ TdField(RowCells(student_rows[idx - 1]), 2) # <<>>

----------------------------------------------------------------------------
(* C3 *)

NoData == "No student data found in the HTML file"

\* C3 as stated: when the output table is empty the output file is as it was
\* before the call, and the "no data found" line is all that is printed.
C3_OnlyNoDataPrinted ==
    (pc = "return" /\ students = <<>>) =>
        /\ outputFile = outAtStart
        /\ [k \in 1..Len(console) |-> console[k].kind] = <<NoData>>

\* C3 amended: when the output table is empty the output file is not opened
\* and is as it was before the call; the "no data found" line is printed
\* once, as the last line, and the lines before it are the diagnostics of
\* the rows that were skipped, one for each.
C3_EmptyTableLeavesOutput ==
    (pc = "return" /\ students = <<>>) =>
        /\ outputFile = outAtStart
        /\ \A k \in 1..Len(opens) : opens[k].path # "output_csv_path"
        /\ console # <<>>
        /\ Last(console).kind = NoData
        /\ \A k \in 1..(Len(console) - 1) : console[k].kind = "Error processing row"
        /\ Len(console) - 1 = Len(SelectSeq(student_rows, LAMBDA r : ~HasFiveCells(r)))

\* A call found rows, kept none of them, and left an earlier output in place.
C3_Witness ==
    /\ pc = "return"
    /\ students = <<>>
    /\ Len(student_rows) = 2
    /\ Len(console) = 2
    /\ outputFile.exists

----------------------------------------------------------------------------
(* C4 *)

TooShort(row) == ~HasFiveCells(row)

\* The rows among the first n that have five cells.
UsableAmong(rows, n) == SelectSeq(SubSeq(rows, 1, n), HasFiveCells)

\* The table built from rows that all have five cells.
RECURSIVE TableOf(_)
TableOf(rows) ==
    IF rows = <<>> THEN <<>>
    ELSE LET before == TableOf(SubSeq(rows, 1, Len(rows) - 1))
             record == RecordFrom(RowCells(Last(rows)))
         IN  IF record["Student ID"] = <<>> THEN before ELSE Append(before, record)

\* C4: a selected row with fewer than five cells is skipped.  At every point
\* of the loop the table is what the rows with five cells processed so far
\* give without the short rows between them, one diagnostic naming the
\* IndexError has been printed for every short row and nothing else, and the
\* function never raises in the loop.
C4_ShortRowsSkipped ==
    /\ pc = "for" =>
        /\ students = TableOf(UsableAmong(student_rows, idx - 1))
        /\ Len(console) = Len(SelectSeq(SubSeq(student_rows, 1, idx - 1), TooShort))
        /\ \A k \in 1..Len(console) :
              /\ console[k].kind = "Error processing row"
              /\ console[k].detail = "list index out of range"
    /\ pc = "raised" =>
        error \in {"FileNotFoundError", "PermissionError"} /\ idx > Len(student_rows)

\* A short row was skipped, and the row after it was recorded.
C4_Witness ==
    /\ pc = "return"
    /\ Len(student_rows) = 2
    /\ TooShort(student_rows[1])
    /\ Len(students) = 1
    /\ CountKind(console, "Error processing row") = 1

----------------------------------------------------------------------------
(* C5 *)

\* The bytes Python's windows-1252 codec refuses: 0x81, 0x8D, 0x8F, 0x90, 0x9D.
Unmapped == {129, 141, 143, 144, 157}

InputUsable == inputFile.exists /\ inputFile.readable

NeedsFallback == InputUsable /\ DocumentBytes(inputFile.data) \cap Unmapped # {}

\* The texts of a document, element by element and td by td.
RECURSIVE TdTexts(_)
TdTexts(cs) ==
    IF cs = <<>> THEN <<>>
    ELSE Head(cs).fonts \o TdTexts(Head(cs).inner) \o TdTexts(Tail(cs))

DocumentTexts(doc) == [k \in 1..Len(doc) |-> TdTexts(doc[k].cells)]

\* C5: the first open of a call reads the input as windows-1252.  The input is
\* opened a second time only after a decoding failure, once, as latin-1, and
\* then every byte becomes the code point of its own value and the call goes
\* on to parse.  A missing or unreadable input raises at the first open, with
\* no second open and nothing printed.
C5_FallbackOnlyOnDecodeError ==
    /\ opens # <<>> => opens[1] = Opened("html_file_path", "r", "windows-1252")
    /\ \A k \in 1..Len(opens) :
          opens[k].encoding = "latin-1" =>
              k = 2 /\ NeedsFallback /\ opens[k].path = "html_file_path"
    /\ \A k \in 2..Len(opens) :
          opens[k].path = "html_file_path" => opens[k].encoding = "latin-1"
    /\ (NeedsFallback /\ pc \in {"parse", "for", "return"}) =>
          /\ Len(opens) >= 2
          /\ opens[2].encoding = "latin-1"
          /\ DocumentTexts(html_content) = DocumentTexts(inputFile.data)
          /\ error = ""
    /\ (NeedsFallback /\ pc = "raised") => AllRowsDone
    /\ (~InputUsable /\ pc # "start") =>
          /\ pc = "raised"
          /\ error = (IF inputFile.exists THEN "PermissionError" ELSE "FileNotFoundError")
          /\ Len(opens) = 1
          /\ console = <<>>

\* An input that only latin-1 decodes has been read and its row recorded.
C5_Witness ==
    /\ NeedsFallback
    /\ pc = "return"
    /\ Len(opens) = 3
    /\ students # <<>>

----------------------------------------------------------------------------
(* C6 *)

IsDigitString(t) == t # <<>> /\ \A k \in 1..Len(t) : t[k] \in Digits

\* "msg" followed by one or more digits and nothing else.
IsMsgNumber(id) == Len(id) >= 3 /\ SubSeq(id, 1, 3) = <<"m", "s", "g">>
                   /\ IsDigitString(SubSeq(id, 4, Len(id)))

ExactSignature(el) == el.tag = "tr" /\ el.class = <<"nav">> /\ IsMsgNumber(el.id)

\* As the library matches: nav is one of the class tokens, and a single
\* newline may follow the digits of the id.
LibrarySignature(el) ==
    /\ el.tag = "tr"
    /\ "nav" \in Ch(el.class)
    /\ \/ IsMsgNumber(el.id)
       \/ el.id # <<>> /\ Last(el.id) = "\n" /\ IsMsgNumber(SubSeq(el.id, 1, Len(el.id) - 1))

RowsSelected == pc \in {"for", "return"}

\* C6 as stated: the selected rows are, in document order, exactly the tr
\* elements whose class attribute equals nav and whose id is msg followed by
\* one or more digits and nothing else.
C6_ExactClassAndId ==
    RowsSelected => student_rows = SelectSeq(html_content, ExactSignature)

\* C6 amended: the selected rows are, in document order, exactly the tr
\* elements that have nav among the tokens of their class attribute and
\* whose id is msg followed by one or more digits, optionally followed by one
\* final newline; a document without such an element gives the empty
\* sequence and no error.
C6_TokenClassAndId ==
    RowsSelected =>
        /\ student_rows = SelectSeq(html_content, LibrarySignature)
        /\ error = ""

\* Of two elements the second alone was selected, and it has two classes.
C6_Witness ==
    /\ pc = "for"
    /\ Len(html_content) = 2
    /\ Len(student_rows) = 1
    /\ student_rows[1] = html_content[2]
    /\ Len(student_rows[1].class) = 2

----------------------------------------------------------------------------
(* C7 *)

CallEnded == pc \in {"return", "raised"}

\* C7: when the second of two successive calls with the same input and the
\* same output path ends, the output file is, byte for byte, what the first
\* call left.
C7_SecondRunSameFile == (run = "second" /\ CallEnded) => outputFile = firstOut

\* The second call has written a table of two records.
C7_Witness ==
    /\ run = "second"
    /\ pc = "return"
    /\ Len(students) = 2
    /\ opens # <<>>
    /\ Last(opens).mode = "w"

----------------------------------------------------------------------------
(* C8 *)

\* The loop is at a row from which the next step takes a record.
RecordTaken == AtRow /\ students' # students

\* C8 as stated: the fields of a record are the trimmed texts of the first
\* font elements of the row's own child cells 1, 2, 3 and 4, and a cell
\* without a font element gives the empty string without a diagnostic.
C8_FieldsFromChildCells ==
    [][RecordTaken =>
          /\ students' = Append(students, RecordFrom(student_rows[idx].cells))
          /\ console' = console]_vars

\* C8 amended: the cells are the td elements below the row, those of a table
\* nested in one of its cells included, in document order.  The fields of a
\* record are the trimmed texts of the first font elements below the cells
\* at indices 1, 2, 3 and 4 of that sequence; a cell there without a font
\* element gives the empty string, and a row with five cells is processed
\* without a diagnostic.
C8_FieldsFromDescendantCells ==
    [][/\ RecordTaken =>
            students' = Append(students, RecordFrom(FindAllTd(student_rows[idx].cells)))
       /\ (AtRow /\ HasFiveCells(student_rows[idx])) =>
            /\ console' = console
            /\ HasId(student_rows[idx]) => students' # students]_vars

\* A record was taken from a row that has a table nested in a cell: its
\* name is the text of the nested cell, and its own last cell is left out.
C8_Witness ==
    /\ PastRow
    /\ HasFiveCells(student_rows[idx - 1])
    /\ RowCells(student_rows[idx - 1]) # student_rows[idx - 1].cells
    /\ students # <<>>
    /\ Last(students) = RecordFrom(RowCells(student_rows[idx - 1]))
    /\ Last(students) # RecordFrom(student_rows[idx - 1].cells)

----------------------------------------------------------------------------
(* C9 *)

RECURSIVE DecodeUtf8(_)
DecodeUtf8(b) ==
    IF b = <<>> THEN <<>>
    ELSE IF b[1] < 128 THEN <<b[1]>> \o DecodeUtf8(SubSeq(b, 2, Len(b)))
    ELSE IF b[1] < 224
      THEN <<(b[1] - 192) * 64 + (b[2] - 128)>> \o DecodeUtf8(SubSeq(b, 3, Len(b)))
    ELSE <<(b[1] - 224) * 4096 + (b[2] - 128) * 64 + (b[3] - 128)>>
         \o DecodeUtf8(SubSeq(b, 4, Len(b)))

\* A CSV reader: the rows of a text, each the list of its fields.  A field
\* in quotes runs to the closing quote, two quotes in it standing for one.
RECURSIVE ReadCsv(_, _, _, _, _)
ReadCsv(s, i, quoted, field, row) ==
    IF i > Len(s)
      THEN IF field = <<>> /\ row = <<>> THEN <<>> ELSE <<Append(row, field)>>
    ELSE IF quoted
      THEN IF s[i] # 34 THEN ReadCsv(s, i + 1, TRUE, Append(field, s[i]), row)
           ELSE IF i < Len(s) /\ s[i + 1] = 34
             THEN ReadCsv(s, i + 2, TRUE, Append(field, 34), row)
           ELSE ReadCsv(s, i + 1, FALSE, field, row)
    ELSE IF s[i] = 34 THEN ReadCsv(s, i + 1, TRUE, field, row)
    ELSE IF s[i] = 44 THEN ReadCsv(s, i + 1, FALSE, <<>>, Append(row, field))
    ELSE IF s[i] = 13 /\ i < Len(s) /\ s[i + 1] = 10
      THEN <<Append(row, field)>> \o ReadCsv(s, i + 2, FALSE, <<>>, <<>>)
    ELSE IF s[i] \in {10, 13}
      THEN <<Append(row, field)>> \o ReadCsv(s, i + 1, FALSE, <<>>, <<>>)
    ELSE ReadCsv(s, i + 1, FALSE, Append(field, s[i]), row)

\* "Student ID,Student Name,Course,Year"
HeaderText ==
    << 83, 116, 117, 100, 101, 110, 116, 32, 73, 68, 44,
       83, 116, 117, 100, 101, 110, 116, 32, 78, 97, 109, 101, 44,
       67, 111, 117, 114, 115, 101, 44, 89, 101, 97, 114 >>

FieldsOf(student) ==
    <<student["Student ID"], student["Student Name"], student["Course"], student["Year"]>>

\* C9: after a call that wrote a table of N >= 1 records, the output file is
\* the header line "Student ID,Student Name,Course,Year" followed by N data
\* rows, the i-th holding the four fields of the i-th record, and the count
\* in the success line is N.
C9_HeaderAndOneRowPerRecord ==
    (pc = "return" /\ students # <<>>) =>
        LET text == DecodeUtf8(outputFile.data)
            rows == ReadCsv(text, 1, FALSE, <<>>, <<>>)
        IN  /\ SubSeq(text, 1, Len(HeaderText) + 2) = HeaderText \o <<13, 10>>
            /\ Len(rows) = Len(students) + 1
            /\ \A k \in 1..Len(students) : rows[k + 1] = FieldsOf(students[k])
            /\ CountKind(console, "Successfully scraped students") = 1
            /\ \A k \in 1..Len(console) :
                  console[k].kind = "Successfully scraped students"
                      => console[k].n = Len(students)

\* A table of two records was written, one with a comma or a quote in its
\* name.
C9_Witness ==
    /\ pc = "return"
    /\ Len(students) = 2
    /\ \E k \in 1..2 : Ch(students[k]["Student Name"]) \cap {44, 34} # {}
    /\ outputFile.data # outAtStart.data

----------------------------------------------------------------------------
(* C10 *)

\* C10: in a call the output file is opened only once every open of the
\* input is past and the loop has passed every selected row, and it changes
\* only then; a call that raises while reading the input leaves the output
\* file as it was.
C10_OutputOpenedLast ==
    /\ \A k \in 1..Len(opens) :
          opens[k].path = "output_csv_path" =>
              /\ k = Len(opens)
              /\ k > 1
              /\ \A j \in 1..(k - 1) : opens[j].path = "html_file_path"
              /\ CallEnded
              /\ idx > Len(student_rows)
    /\ outputFile # outAtStart =>
          /\ pc = "return"
          /\ idx > Len(student_rows)
          /\ Last(opens).path = "output_csv_path"
    /\ (pc = "raised" /\ Last(opens).path = "html_file_path") => outputFile = outAtStart

\* The input was missing, and the output of an earlier run is still there.
C10_Witness ==
    /\ pc = "raised"
    /\ error = "FileNotFoundError"
    /\ outputFile.exists
    /\ outputFile.data # <<>>

====
